---- MODULE Spec2Model ----
(***************************************************************************)
(* screenr: the /archive request handler and the capture orchestrator      *)
(* save_webpage_as_image of src/screenr.py, as a state machine.            *)
(*                                                                         *)
(* One behaviour is one request: archive() validates the URL, derives the  *)
(* output path, awaits save_webpage_as_image and renders a result page.    *)
(* Every awaited Playwright call is one action whose outcome (it returns,  *)
(* or it raises) is chosen nondeterministically; a raise places the        *)
(* exception in exc and moves control to the handler the Python try        *)
(* nesting selects.  The exit of the async_playwright() context manager    *)
(* is taken not to raise.                                                  *)
(***************************************************************************)
EXTENDS Integers, Sequences, FiniteSets, TLC

\* ---------------------------------------------------------------- bounds
\* request timestamps (the %Y%m%d%H%M%S value of the file name) are 1..MaxStamp
MaxStamp == 2
\* measured document heights are the multiples of HeightGrain up to
\* MaxHeightSteps * HeightGrain
HeightGrain == 600
MaxHeightSteps == 8
\* between two ticks of the scroll routine a document grows by a multiple of
\* HeightGrain up to MaxGrowSteps * HeightGrain (lazily loaded content)
MaxGrowSteps == 2

\* ------------------------------------------------------ program constants
\* line 110: height > 3000
TallThreshold == 3000
\* line 114: const step = 1200
ScrollStep == 1200

\* line 143: for engine_name in ("chromium", "firefox")
Engines == <<"chromium", "firefox">>
\* line 166: for load_state in ("networkidle", "load", "domcontentloaded")
LoadStates == <<"networkidle", "load", "domcontentloaded">>

EngineIdx == 1..Len(Engines)
CritIdx == 1..Len(LoadStates)
Pairs == EngineIdx \X CritIdx

Heights == {h * HeightGrain : h \in 0..MaxHeightSteps}

\* line 117: what document.body.scrollHeight can have gained since the last tick
Growth == {g * HeightGrain : g \in 0..MaxGrowSteps}

\* the URLs a form can carry, as <<scheme prefix, rest>> after .strip()
Urls == {<<"http://", "host">>, <<"https://", "host">>, <<"ftp://", "host">>, <<>>}

\* line 204: url.startswith(prefix)
startswith(u, prefix) == Len(u) > 0 /\ u[1] = prefix

\* ------------------------------------------------------------------ paths
\* A path in UPLOAD_DIRECTORY is its file name: a stem and the dot-separated
\* suffixes that follow it ("screenr_<ts>.png" is stem ts, suffixes <<"png">>).
\* line 207-208: secure_filename(f"screenr_{now:%Y%m%d%H%M%S}.png")
TargetFile(ts) == [stem |-> ts, suffixes |-> <<"png">>]

\* pathlib.Path.with_suffix: the last suffix (if any) is replaced by the new
\* suffix text, which here holds two dot-separated parts
with_suffix(p, suf) ==
  [p EXCEPT !.suffixes =
     (IF Len(p.suffixes) = 0 THEN <<>> ELSE SubSeq(p.suffixes, 1, Len(p.suffixes) - 1))
       \o suf]

\* line 138 / 218
FailPngPath(out) == with_suffix(out, <<"fail", "png">>)
\* line 139 / 219
FailHtmlPath(out) == with_suffix(out, <<"fail", "html">>)

\* ----------------------------------------------------------------- errors
\* an exception value: the call that raised it, and where
Err(e, c, step) == [engine |-> e, crit |-> c, step |-> step]
\* line 140: last_err = None
None == Err(0, 0, "none")

VARIABLES
  pc,           \* control location of the request
  url,          \* request.form["url"].strip()
  stamp,        \* datetime.now() of the request, to the second
  output_path,  \* the primary artifact's path (line 208), or NoPath
  eng,          \* index into Engines of the engine loop (line 143)
  crit,         \* index into LoadStates of the criterion loop (line 166)
  exc,          \* the exception in flight between a raise and its handler
  last_err,     \* line 140, 173, 188
  result,       \* what save_webpage_as_image returned: "none", "True", "False"
  rendered,     \* the page archive() rendered: "none", "invalid", "success", "failure"
  height,       \* the value document.body.scrollHeight evaluated to (line 109)
  y,            \* the scroll routine's y (line 113)
  docHeight,    \* document.body.scrollHeight as the scroll routine last read it (line 117)
  files,        \* names existing in UPLOAD_DIRECTORY
  written,      \* history: the [path, op] of every completed write
  outWrites,    \* history: the number of completed writes of output_path
  launchCalls,  \* history: browser_type.launch() invocations per engine
  launched,     \* history: successful launches per engine
  closeCalls,   \* history: browser.close() invocations per engine's browser
  engineFail,   \* history: the set-up step that failed for an engine, or "none"
  attempts,     \* history: page.goto invocations per engine x criterion
  outcome,      \* history: per engine x criterion "untried", "running", "ok", "fail"
  nav,          \* history: the navigation of the attempt under way: "none", "ok", "failed"
  stab,         \* history: its stabilization: "none", "running", "done", "swallowed", "failed"
  pngTries,     \* history: .fail.png screenshot invocations per engine x criterion
  htmlTries,    \* history: page.content() invocations per engine x criterion
  lastRaised,   \* history: the last exception raised outside artifact collection
  peerPath,     \* the output path of a request served concurrently (line 208), or NoPath
  peerWritten   \* history: the paths that concurrent request has written

vars == <<pc, url, stamp, output_path, eng, crit, exc, last_err, result, rendered,
          height, y, docHeight, files, written, outWrites, launchCalls, launched, closeCalls, engineFail,
          attempts, outcome, nav, stab, pngTries, htmlTries, lastRaised,
          peerPath, peerWritten>>

NoPath == [stem |-> 0, suffixes |-> <<>>]

\* the variables of the file system and of the histories of writes
fsVars == <<files, written, outWrites>>
\* the histories of the engine set-up
engVars == <<launchCalls, launched, closeCalls, engineFail>>
\* the histories of the attempts
attVars == <<attempts, outcome, nav, stab, pngTries, htmlTries>>
\* the request's own data
reqVars == <<url, stamp, output_path, rendered>>
\* the concurrent request's data
peerVars == <<peerPath, peerWritten>>
\* the stabilization step's locals
scrollVars == <<height, y, docHeight>>

Init ==
  /\ pc = "archive"
  /\ url \in Urls
  /\ stamp \in 1..MaxStamp
  /\ output_path = NoPath
  /\ eng = 1
  /\ crit = 1
  /\ exc = None
  /\ last_err = None
  /\ result = "none"
  /\ rendered = "none"
  /\ height = 0
  /\ y = 0
  /\ docHeight = 0
  /\ files = {}
  /\ written = {}
  /\ outWrites = 0
  /\ launchCalls = [e \in EngineIdx |-> 0]
  /\ launched = [e \in EngineIdx |-> 0]
  /\ closeCalls = [e \in EngineIdx |-> 0]
  /\ engineFail = [e \in EngineIdx |-> "none"]
  /\ attempts = [p \in Pairs |-> 0]
  /\ outcome = [p \in Pairs |-> "untried"]
  /\ nav = "none"
  /\ stab = "none"
  /\ pngTries = [p \in Pairs |-> 0]
  /\ htmlTries = [p \in Pairs |-> 0]
  /\ lastRaised = None
  /\ peerPath = NoPath
  /\ peerWritten = {}

\* a completed write of path p by operation op
Write(p, op) ==
  /\ files' = files \cup {p}
  /\ written' = written \cup {[path |-> p, op |-> op]}
  /\ outWrites' = outWrites + (IF p = output_path THEN 1 ELSE 0)

\* an exception raised by `step`, on its way to a handler of save_webpage_as_image
Raise(step, c) ==
  /\ exc' = Err(eng, c, step)
  /\ lastRaised' = Err(eng, c, step)

\* ------------------------------------------------------------- archive()
\* lines 203-208: reject a URL that is not http(s), else derive the target file
ArchiveStart ==
  /\ pc = "archive"
  /\ IF ~(startswith(url, "http://") \/ startswith(url, "https://"))
       THEN /\ rendered' = "invalid"
            /\ pc' = "done"
            /\ UNCHANGED output_path
       ELSE /\ output_path' = TargetFile(stamp)
            /\ pc' = "pw_start"
            /\ UNCHANGED rendered
  /\ UNCHANGED <<peerVars, url, stamp, eng, crit, exc, last_err, result, scrollVars,
                 fsVars, engVars, attVars, lastRaised>>

\* lines 213-224: the success page needs ok and the file on disk
ArchiveRender ==
  /\ pc = "returned"
  /\ rendered' = IF result = "True" /\ output_path \in files THEN "success" ELSE "failure"
  /\ pc' = "done"
  /\ UNCHANGED <<peerVars, url, stamp, output_path, eng, crit, exc, last_err, result,
                 scrollVars, fsVars, engVars, attVars, lastRaised>>

\* ------------------------------------------------ save_webpage_as_image
\* line 143: the engine loop moves to its next engine, or ends (line 191)
NextEngine ==
  IF eng < Len(Engines)
    THEN eng' = eng + 1 /\ pc' = "launch"
    ELSE pc' = "return_false" /\ UNCHANGED eng

\* line 142: async with async_playwright() as p; no try encloses it
PlaywrightStart ==
  /\ pc = "pw_start"
  /\ \E ok \in BOOLEAN :
       IF ok THEN /\ pc' = "launch"
                  /\ eng' = 1
                  /\ UNCHANGED <<exc, lastRaised>>
             ELSE /\ pc' = "raised"
                  /\ exc' = Err(0, 0, "async_playwright")
                  /\ lastRaised' = Err(0, 0, "async_playwright")
                  /\ UNCHANGED eng
  /\ UNCHANGED <<peerVars, reqVars, crit, last_err, result, scrollVars, fsVars, engVars, attVars>>

\* line 146: browser = await browser_type.launch(headless=HEADLESS)
Launch ==
  /\ pc = "launch"
  /\ launchCalls' = [launchCalls EXCEPT ![eng] = @ + 1]
  /\ \E ok \in BOOLEAN :
       IF ok THEN /\ launched' = [launched EXCEPT ![eng] = @ + 1]
                  /\ pc' = "new_context"
                  /\ UNCHANGED <<exc, lastRaised, engineFail>>
             ELSE /\ Raise("launch", 0)
                  /\ engineFail' = [engineFail EXCEPT ![eng] = "launch"]
                  /\ pc' = "outer_except"
                  /\ UNCHANGED launched
  /\ UNCHANGED <<peerVars, reqVars, eng, crit, last_err, result, scrollVars, fsVars, closeCalls,
                 attVars>>

\* a set-up call between launch and the criterion loop: it returns and control
\* moves to `next`, or it raises into the engine-level handler (line 187)
SetUpStep(here, step, next) ==
  /\ pc = here
  /\ \E ok \in BOOLEAN :
       IF ok THEN /\ pc' = next
                  /\ UNCHANGED <<exc, lastRaised, engineFail>>
             ELSE /\ Raise(step, 0)
                  /\ engineFail' = [engineFail EXCEPT ![eng] = step]
                  /\ pc' = "outer_except"
  /\ UNCHANGED <<peerVars, reqVars, eng, last_err, result, scrollVars, fsVars, launchCalls,
                 launched, closeCalls, attVars>>

\* mutant of NewContext: the raise is caught by the criterion loop's handler
NewContextCaughtInLoop ==
  /\ pc = "new_context"
  /\ \E ok \in BOOLEAN :
       IF ok THEN /\ pc' = "new_page"
                  /\ UNCHANGED <<exc, lastRaised, engineFail>>
             ELSE /\ Raise("new_context", 0)
                  /\ engineFail' = [engineFail EXCEPT ![eng] = "new_context"]
                  /\ pc' = "inner_except"
  /\ UNCHANGED <<peerVars, reqVars, eng, crit, last_err, result, scrollVars, fsVars, launchCalls,
                 launched, closeCalls, attVars>>

\* lines 147-156: context = await browser.new_context(...)
NewContext == SetUpStep("new_context", "new_context", "new_page") /\ UNCHANGED crit

\* line 158: page = await context.new_page()
NewPage == SetUpStep("new_page", "new_page", "init_script") /\ UNCHANGED crit

\* lines 159-166: await page.add_init_script(...), then the criterion loop starts
AddInitScript == SetUpStep("init_script", "add_init_script", "goto") /\ crit' = 1

\* an exception leaving _try_nav_and_shot: the attempt has failed (line 172)
AttemptRaises(step) ==
  /\ Raise(step, crit)
  /\ outcome' = [outcome EXCEPT ![<<eng, crit>>] = "fail"]
  /\ pc' = "inner_except"

\* mutant of Goto: a failed navigation does not raise
GotoFailureIgnored ==
  /\ pc = "goto"
  /\ attempts' = [attempts EXCEPT ![<<eng, crit>>] = @ + 1]
  /\ stab' = "none"
  /\ \E ok \in BOOLEAN : nav' = IF ok THEN "ok" ELSE "failed"
  /\ outcome' = [outcome EXCEPT ![<<eng, crit>>] = "running"]
  /\ pc' = "settle"
  /\ UNCHANGED <<peerVars, reqVars, eng, crit, exc, last_err, result, scrollVars, fsVars, engVars,
                 pngTries, htmlTries, lastRaised>>

\* line 103: await page.goto(url, wait_until=load_state, timeout=NAV_TIMEOUT_MS)
Goto ==
  /\ pc = "goto"
  /\ attempts' = [attempts EXCEPT ![<<eng, crit>>] = @ + 1]
  /\ stab' = "none"
  /\ \E ok \in BOOLEAN :
       IF ok THEN /\ nav' = "ok"
                  /\ outcome' = [outcome EXCEPT ![<<eng, crit>>] = "running"]
                  /\ pc' = "settle"
                  /\ UNCHANGED <<exc, lastRaised>>
             ELSE /\ nav' = "failed"
                  /\ AttemptRaises("goto")
  /\ UNCHANGED <<peerVars, reqVars, eng, crit, last_err, result, scrollVars, fsVars, engVars,
                 pngTries, htmlTries>>

\* line 105: await page.wait_for_timeout(1500), outside the try of line 108
Settle ==
  /\ pc = "settle"
  /\ \E ok \in BOOLEAN :
       IF ok THEN /\ stab' = "running"
                  /\ pc' = "measure"
                  /\ UNCHANGED <<exc, lastRaised, outcome>>
             ELSE /\ stab' = "failed"
                  /\ AttemptRaises("wait_for_timeout")
  /\ UNCHANGED <<peerVars, reqVars, eng, crit, last_err, result, scrollVars, fsVars, engVars,
                 attempts, nav, pngTries, htmlTries>>

\* mutant of Measure: the height is compared with the scroll step
MeasureWrongThreshold ==
  /\ pc = "measure"
  /\ \E ok \in BOOLEAN, h \in Heights :
       IF ok THEN /\ height' = h
                  /\ docHeight' = h
                  /\ IF h # 0 /\ h > ScrollStep
                       THEN pc' = "scroll" /\ y' = 0 /\ UNCHANGED stab
                       ELSE pc' = "shot" /\ stab' = "done" /\ UNCHANGED y
             ELSE /\ stab' = "swallowed"
                  /\ pc' = "shot"
                  /\ UNCHANGED scrollVars
  /\ UNCHANGED <<peerVars, reqVars, eng, crit, exc, last_err, result, fsVars, engVars, attempts,
                 outcome, nav, pngTries, htmlTries, lastRaised>>

\* lines 108-110, 122-123: measure the height; a raise is swallowed
Measure ==
  /\ pc = "measure"
  /\ \E ok \in BOOLEAN, h \in Heights :
       IF ok THEN /\ height' = h
                  /\ docHeight' = h
                  /\ IF h # 0 /\ h > TallThreshold
                       THEN pc' = "scroll" /\ y' = 0 /\ UNCHANGED stab
                       ELSE pc' = "shot" /\ stab' = "done" /\ UNCHANGED y
             ELSE /\ stab' = "swallowed"
                  /\ pc' = "shot"
                  /\ UNCHANGED scrollVars
  /\ UNCHANGED <<peerVars, reqVars, eng, crit, exc, last_err, result, fsVars, engVars, attempts,
                 outcome, nav, pngTries, htmlTries, lastRaised>>

\* mutant of ScrollTick: the routine stops only once y is past the scroll height
ScrollTickPastBottom ==
  /\ pc = "scroll"
  /\ \E g \in Growth :
       /\ docHeight + g <= MaxHeightSteps * HeightGrain
       /\ docHeight' = docHeight + g
  /\ y' = y + ScrollStep
  /\ pc' = IF y' > docHeight' THEN "pause" ELSE "scroll"
  /\ UNCHANGED <<peerVars, reqVars, eng, crit, exc, last_err, result, height, fsVars, engVars,
                 attVars, lastRaised>>

\* lines 115-118: one tick of the interval timer: scroll to y += step, then
\* compare y with the scroll height the document has by now
ScrollTick ==
  /\ pc = "scroll"
  /\ \E g \in Growth :
       /\ docHeight + g <= MaxHeightSteps * HeightGrain
       /\ docHeight' = docHeight + g
  /\ y' = y + ScrollStep
  /\ pc' = IF y' >= docHeight' THEN "pause" ELSE "scroll"
  /\ UNCHANGED <<peerVars, reqVars, eng, crit, exc, last_err, result, height, fsVars, engVars,
                 attVars, lastRaised>>

\* lines 111, 122-123: the evaluate of the scroll routine raises; swallowed
ScrollRaises ==
  /\ pc = "scroll"
  /\ stab' = "swallowed"
  /\ pc' = "shot"
  /\ UNCHANGED <<peerVars, reqVars, eng, crit, exc, last_err, result, scrollVars, fsVars, engVars,
                 attempts, outcome, nav, pngTries, htmlTries, lastRaised>>

\* lines 121-123: await page.wait_for_timeout(500); a raise is swallowed
Pause ==
  /\ pc = "pause"
  /\ \E ok \in BOOLEAN : stab' = IF ok THEN "done" ELSE "swallowed"
  /\ pc' = "shot"
  /\ UNCHANGED <<peerVars, reqVars, eng, crit, exc, last_err, result, scrollVars, fsVars, engVars,
                 attempts, outcome, nav, pngTries, htmlTries, lastRaised>>

\* lines 125-126: await page.screenshot(path=str(out_path), full_page=True)
FullShot ==
  /\ pc = "shot"
  /\ \E ok \in BOOLEAN :
       IF ok THEN /\ Write(output_path, "screenshot_full")
                  /\ outcome' = [outcome EXCEPT ![<<eng, crit>>] = "ok"]
                  /\ pc' = "close_ok"
                  /\ UNCHANGED <<exc, lastRaised>>
             ELSE /\ AttemptRaises("screenshot")
                  /\ UNCHANGED fsVars
  /\ height' = 0
  /\ y' = 0
  /\ docHeight' = 0
  /\ UNCHANGED <<peerVars, reqVars, eng, crit, last_err, result, engVars, attempts, nav, stab,
                 pngTries, htmlTries>>

\* lines 170-171: await browser.close(); return True -- inside the try of line 167
CloseAfterShot ==
  /\ pc = "close_ok"
  /\ closeCalls' = [closeCalls EXCEPT ![eng] = @ + 1]
  /\ \E ok \in BOOLEAN :
       IF ok THEN /\ result' = "True"
                  /\ pc' = "returned"
                  /\ UNCHANGED <<exc, lastRaised>>
             ELSE /\ Raise("close", crit)
                  /\ pc' = "inner_except"
                  /\ UNCHANGED result
  /\ nav' = "none"
  /\ stab' = "none"
  /\ UNCHANGED <<peerVars, reqVars, eng, crit, last_err, scrollVars, fsVars, launchCalls, launched,
                 engineFail, attempts, outcome, pngTries, htmlTries>>

\* mutant of InnerExcept: the handler does not retain the error
InnerExceptKeepsNothing ==
  /\ pc = "inner_except"
  /\ exc' = None
  /\ pc' = "fail_png"
  /\ nav' = "none"
  /\ stab' = "none"
  /\ UNCHANGED <<peerVars, reqVars, eng, crit, last_err, result, scrollVars, fsVars, engVars,
                 attempts, outcome, pngTries, htmlTries, lastRaised>>

\* lines 172-174: except Exception as e: last_err = e
InnerExcept ==
  /\ pc = "inner_except"
  /\ last_err' = exc
  /\ exc' = None
  /\ pc' = "fail_png"
  /\ nav' = "none"
  /\ stab' = "none"
  /\ UNCHANGED <<peerVars, reqVars, eng, crit, result, scrollVars, fsVars, engVars, attempts,
                 outcome, pngTries, htmlTries, lastRaised>>

\* mutant of FailPng: no try of its own, a raise reaches the engine-level handler
FailPngUnguarded ==
  /\ pc = "fail_png"
  /\ pngTries' = [pngTries EXCEPT ![<<eng, crit>>] = @ + 1]
  /\ \E ok \in BOOLEAN :
       IF ok THEN /\ Write(FailPngPath(output_path), "screenshot_viewport")
                  /\ pc' = "fail_html"
                  /\ UNCHANGED <<exc, lastRaised>>
             ELSE /\ Raise("fail_screenshot", crit)
                  /\ pc' = "outer_except"
                  /\ UNCHANGED fsVars
  /\ UNCHANGED <<peerVars, reqVars, eng, crit, last_err, result, scrollVars, engVars,
                 attempts, outcome, nav, stab, htmlTries>>

\* lines 176-179: the viewport screenshot to .fail.png, in a try of its own
FailPng ==
  /\ pc = "fail_png"
  /\ pngTries' = [pngTries EXCEPT ![<<eng, crit>>] = @ + 1]
  /\ \E ok \in BOOLEAN :
       IF ok THEN Write(FailPngPath(output_path), "screenshot_viewport")
             ELSE UNCHANGED fsVars
  /\ pc' = "fail_html"
  /\ UNCHANGED <<peerVars, reqVars, eng, crit, exc, last_err, result, scrollVars, engVars,
                 attempts, outcome, nav, stab, htmlTries, lastRaised>>

\* lines 180-184, 166: page.content() and write_text to .fail.html, in a try of
\* its own; then the criterion loop moves on, or ends at line 186
FailHtml ==
  /\ pc = "fail_html"
  /\ htmlTries' = [htmlTries EXCEPT ![<<eng, crit>>] = @ + 1]
  /\ \E ok \in BOOLEAN :
       IF ok THEN Write(FailHtmlPath(output_path), "write_text")
             ELSE UNCHANGED fsVars
  /\ IF crit < Len(LoadStates)
       THEN crit' = crit + 1 /\ pc' = "goto"
       ELSE pc' = "close_end" /\ UNCHANGED crit
  /\ UNCHANGED <<peerVars, reqVars, eng, exc, last_err, result, scrollVars, engVars, attempts,
                 outcome, nav, stab, pngTries, lastRaised>>

\* line 186: await browser.close() after the criterion loop
CloseEnd ==
  /\ pc = "close_end"
  /\ closeCalls' = [closeCalls EXCEPT ![eng] = @ + 1]
  /\ \E ok \in BOOLEAN :
       IF ok THEN /\ NextEngine
                  /\ UNCHANGED <<exc, lastRaised, engineFail>>
             ELSE /\ Raise("close", 0)
                  /\ engineFail' = [engineFail EXCEPT ![eng] = "close"]
                  /\ pc' = "outer_except"
                  /\ UNCHANGED eng
  /\ UNCHANGED <<peerVars, reqVars, crit, last_err, result, scrollVars, fsVars, launchCalls,
                 launched, attVars>>

\* mutant of OuterExcept: the handler does not retain the error
OuterExceptKeepsNothing ==
  /\ pc = "outer_except"
  /\ exc' = None
  /\ NextEngine
  /\ UNCHANGED <<peerVars, reqVars, crit, last_err, result, scrollVars, fsVars, engVars, attVars,
                 lastRaised>>

\* lines 187-189: except Exception as e: last_err = e; then the next engine
OuterExcept ==
  /\ pc = "outer_except"
  /\ last_err' = exc
  /\ exc' = None
  /\ NextEngine
  /\ UNCHANGED <<peerVars, reqVars, crit, result, scrollVars, fsVars, engVars, attVars, lastRaised>>

\* lines 191-194: return False
ReturnFalse ==
  /\ pc = "return_false"
  /\ result' = "False"
  /\ pc' = "returned"
  /\ UNCHANGED <<peerVars, reqVars, eng, crit, exc, last_err, scrollVars, fsVars, engVars, attVars,
                 lastRaised>>

Next ==
  \/ ArchiveStart
  \/ PlaywrightStart
  \/ Launch
  \/ NewContext
  \/ NewPage
  \/ AddInitScript
  \/ Goto
  \/ Settle
  \/ Measure
  \/ ScrollTick
  \/ ScrollRaises
  \/ Pause
  \/ FullShot
  \/ CloseAfterShot
  \/ InnerExcept
  \/ FailPng
  \/ FailHtml
  \/ CloseEnd
  \/ OuterExcept
  \/ ReturnFalse
  \/ ArchiveRender

Spec == Init /\ [][Next]_vars

\* ------------------------------------------- a second, concurrent request
\* lines 202-208 run for another request while this one is served: it takes its
\* own datetime.now(), which may fall in the same second, and derives its path
PeerArchiveStart ==
  /\ pc \notin {"done", "raised"}
  /\ peerPath = NoPath
  /\ \E ts \in 1..MaxStamp : peerPath' = TargetFile(ts)
  /\ UNCHANGED <<pc, reqVars, eng, crit, exc, last_err, result, scrollVars, fsVars,
                 engVars, attVars, lastRaised, peerWritten>>

\* lines 125, 177, 182 run for the other request: it writes its primary
\* artifact or one of its failure artifacts into the shared upload directory
PeerWrite ==
  /\ pc \notin {"done", "raised"}
  /\ peerPath # NoPath
  /\ \E p \in {peerPath, FailPngPath(peerPath), FailHtmlPath(peerPath)} :
       /\ files' = files \cup {p}
       /\ peerWritten' = peerWritten \cup {p}
  /\ UNCHANGED <<pc, reqVars, eng, crit, exc, last_err, result, scrollVars, written,
                 outWrites, engVars, attVars, lastRaised, peerPath>>

NextTwo ==
  \/ Next
  \/ PeerArchiveStart
  \/ PeerWrite

\* both requests carry an http(s) URL: a rejected request derives no path
InitTwo == Init /\ url = <<"https://", "host">>

\* two requests served concurrently
SpecTwo == InitTwo /\ [][NextTwo]_vars

\* ------------------------------------------------------------------ types
\* lines 115-118 on a document that loads more content whenever it is scrolled
\* (an endless feed): each tick moves y down by one step and the scroll height
\* grows by as much, so the distance to the bottom stays the same and the
\* test of line 117 stays false. The routine has no tick limit and the
\* evaluate of line 111 has no timeout. The test reads only the distance
\* scrollHeight - y, so the pair is kept up to a common shift: once the scroll
\* height would leave the window of Heights, both are moved back by the new y.
FeedTick ==
  /\ pc = "scroll"
  /\ y < docHeight
  /\ (docHeight - y) + ScrollStep <= MaxHeightSteps * HeightGrain
  /\ IF docHeight + ScrollStep <= MaxHeightSteps * HeightGrain
       THEN /\ y' = y + ScrollStep
            /\ docHeight' = docHeight + ScrollStep
       ELSE /\ y' = 0
            /\ docHeight' = docHeight - y
  /\ pc' = IF y' >= docHeight' THEN "pause" ELSE "scroll"
  /\ UNCHANGED <<peerVars, reqVars, eng, crit, exc, last_err, result, height, fsVars, engVars,
                 attVars, lastRaised>>

NextLive ==
  \/ Next
  \/ FeedTick

\* the event loop keeps running whatever is runnable; the page's timer keeps
\* firing. Nothing is assumed about what the document does.
SpecLive == Init /\ [][NextLive]_vars /\ WF_vars(NextLive)

TypeOK ==
  /\ pc \in {"archive", "pw_start", "launch", "new_context", "new_page", "init_script",
             "goto", "settle", "measure", "scroll", "pause", "shot", "close_ok",
             "inner_except", "fail_png", "fail_html", "close_end", "outer_except",
             "return_false", "returned", "raised", "done"}
  /\ eng \in EngineIdx
  /\ crit \in CritIdx
  /\ result \in {"none", "True", "False"}
  /\ rendered \in {"none", "invalid", "success", "failure"}
  /\ height \in Heights
  /\ docHeight \in Heights
  /\ y \in 0..(MaxHeightSteps * HeightGrain + ScrollStep)
  /\ nav \in {"none", "ok", "failed"}
  /\ stab \in {"none", "running", "done", "swallowed", "failed"}

\* ------------------------------------------------------- derived notions
\* the attempt on pair p completed navigation, stabilization and capture
Succeeded(p) == outcome[p] = "ok"
\* save_webpage_as_image has returned to archive()
Returned == pc = "returned"
\* the set-up calls of an engine, before its criterion loop
SetUpSteps == {"launch", "new_context", "new_page", "add_init_script"}
\* the calls of one attempt's try block (lines 167-171)
AttemptSteps == {"goto", "wait_for_timeout", "screenshot", "close"}
\* pair q comes after pair p in the order of the two loops
After(p, q) == q[1] > p[1] \/ (q[1] = p[1] /\ q[2] > p[2])
\* every engine x criterion combination has failed: each engine either failed
\* in set-up (so none of its criteria could run) or failed on all its criteria
AllCombinationsFailed ==
  \A e \in EngineIdx :
    \/ engineFail[e] \in SetUpSteps
    \/ \A c \in CritIdx : outcome[<<e, c>>] = "fail"

\* ------------------------------------------------------------------ claims
\* C1: when save_webpage_as_image returns, the number of browser.close()
\* invocations equals the number of successful launches, for every engine:
\* each launched browser is closed exactly once.
C1_CloseOncePerLaunch ==
  Returned => \A e \in EngineIdx : closeCalls[e] = launched[e]

\* C2: the primary artifact at output_path is written at most once over the
\* whole run, and exactly once on a run that returns True.
C2_PrimaryWrittenOnce ==
  /\ outWrites <= 1
  /\ (Returned /\ result = "True") => outWrites = 1

\* C3: if every engine x criterion combination fails, the function returns
\* False, output_path has never been written, and last_err is set; archive()
\* then renders the failure page.
C3_AllFailed ==
  AllCombinationsFailed =>
    /\ result # "True"
    /\ outWrites = 0
    /\ output_path \notin files
    /\ Returned => (result = "False" /\ last_err # None)
    /\ pc = "done" => rendered = "failure"

\* C3 witness: the run returned after chromium failed on all three criteria
\* and firefox could not be launched
C3_Witness ==
  /\ Returned
  /\ \A c \in CritIdx : outcome[<<1, c>>] = "fail"
  /\ engineFail[2] = "launch"

\* C4: within an engine a criterion is attempted only after every stricter
\* criterion has been attempted and has failed on that engine.
C4_StrictToLenient ==
  \A e \in EngineIdx, c \in CritIdx :
    attempts[<<e, c>>] > 0 =>
      \A c2 \in 1..(c - 1) : attempts[<<e, c2>>] > 0 /\ outcome[<<e, c2>>] = "fail"

\* C5: once an attempt has succeeded, no failure artifact is collected for it,
\* no further criterion is attempted, no further engine is launched, and the
\* function returns True.
C5_FirstSuccessIsFinal ==
  \A p \in Pairs :
    Succeeded(p) =>
      /\ pngTries[p] = 0 /\ htmlTries[p] = 0
      /\ \A q \in Pairs : After(p, q) => attempts[q] = 0
      /\ \A e \in EngineIdx : e > p[1] => launchCalls[e] = 0
      /\ Returned => result = "True"

\* C6: the full-page capture is invoked only after the navigation of the same
\* attempt succeeded and the stabilization step has finished (completed or
\* swallowed); every write of output_path is made by it, one per successful
\* attempt.
C6_CaptureOnlyAfterNavigation ==
  /\ pc \in {"shot", "close_ok"} => (nav = "ok" /\ stab \in {"done", "swallowed"})
  /\ \A w \in written : w.path = output_path => w.op = "screenshot_full"
  /\ outWrites = Cardinality({p \in Pairs : Succeeded(p)})
  /\ \A p \in Pairs : Succeeded(p) => attempts[p] = 1

\* C6 witness: the capture has just written output_path on the second
\* criterion, after the first criterion's navigation failed
C6_Witness ==
  /\ pc = "close_ok"
  /\ crit = 2
  /\ last_err = Err(1, 1, "goto")
  /\ output_path \in files
  /\ FailPngPath(output_path) \in files
  /\ FailHtmlPath(output_path) \in files

\* C7: when launch, new_context, new_page (or add_init_script) fails for an
\* engine, no criterion is attempted and no failure artifact is collected on
\* that engine, and control is in the engine-level handler until the next
\* engine starts, or goes to the failed result after the last engine.
C7_EngineFailureSkipsCriteria ==
  /\ \A e \in EngineIdx :
       engineFail[e] \in SetUpSteps =>
         \A c \in CritIdx :
           /\ attempts[<<e, c>>] = 0
           /\ outcome[<<e, c>>] = "untried"
           /\ pngTries[<<e, c>>] = 0
           /\ htmlTries[<<e, c>>] = 0
  /\ engineFail[eng] \in SetUpSteps =>
       pc \in {"outer_except"} \cup
              (IF eng = Len(Engines) THEN {"return_false", "returned", "done"} ELSE {})

\* C7 witness: chromium's new_context failed and firefox's new_page failed;
\* the run has returned False
C7_Witness ==
  /\ Returned
  /\ result = "False"
  /\ engineFail[1] = "new_context"
  /\ engineFail[2] = "new_page"

\* every failed attempt is followed by one .fail.png attempt and one
\* .fail.html attempt, the second whatever the outcome of the first
C8_BothArtifactsAttempted ==
  \A p \in Pairs :
    /\ htmlTries[p] = (IF pc = "fail_html" /\ p = <<eng, crit>> THEN pngTries[p] - 1
                                                               ELSE pngTries[p])
    /\ (outcome[p] = "fail" /\ ~(p = <<eng, crit>> /\ pc \in {"inner_except", "fail_png", "fail_html"}))
          => (pngTries[p] = 1 /\ htmlTries[p] = 1)

\* a step of failure-artifact collection goes where the loop position alone
\* says, and leaves the retained error and the result alone
C8_CollectionStep ==
  /\ pc = "fail_png" => (pc' = "fail_html" /\ crit' = crit)
  /\ pc = "fail_html" =>
       IF crit < Len(LoadStates) THEN pc' = "goto" /\ crit' = crit + 1
                                 ELSE pc' = "close_end" /\ crit' = crit
  /\ pc \in {"fail_png", "fail_html"} =>
       (eng' = eng /\ last_err' = last_err /\ result' = result /\ exc' = exc)

\* C8: both artifacts are attempted after every failed attempt, and the
\* collection steps never change control flow, last_err or the result.
C8_ArtifactsIndependent == []C8_BothArtifactsAttempted /\ [][C8_CollectionStep]_vars

\* C8 witness: on the first criterion the viewport screenshot failed, the
\* markup was still saved, and the second criterion is about to be tried
C8_Witness ==
  /\ pc = "goto"
  /\ crit = 2
  /\ pngTries[<<eng, 1>>] = 1
  /\ htmlTries[<<eng, 1>>] = 1
  /\ FailPngPath(output_path) \notin files
  /\ FailHtmlPath(output_path) \in files

\* the last pair on which a navigation was attempted, <<0, 0>> if none was
LastAttempted ==
  IF \A p \in Pairs : attempts[p] = 0 THEN <<0, 0>>
  ELSE CHOOSE p \in Pairs : attempts[p] > 0 /\ \A q \in Pairs : After(p, q) => attempts[q] = 0

\* C9 as stated: on a False return last_err is an error raised within the
\* attempt of the last attempted engine x criterion pair.
C9_LastErrFromLastPair ==
  (Returned /\ result = "False") =>
    /\ last_err.step \in AttemptSteps
    /\ <<last_err.engine, last_err.crit>> = LastAttempted

\* C9 amended: on a False return last_err is the exception most recently caught
\* by either handler; it comes from the last engine, and is either the error of
\* that engine's last attempt (goto, settle wait, capture, or the close after a
\* capture) or the engine-level error (launch, new_context, new_page,
\* add_init_script, or the close after the criterion loop) that ended the
\* engine; an error of failure-artifact collection is never retained.
C9_LastErrIsLastCaught ==
  (Returned /\ result = "False") =>
    /\ last_err # None
    /\ last_err = lastRaised
    /\ last_err.engine = Len(Engines)
    /\ IF engineFail[Len(Engines)] = "none"
         THEN last_err.crit = Len(LoadStates) /\ last_err.step \in AttemptSteps
         ELSE last_err.crit = 0 /\ last_err.step = engineFail[Len(Engines)]

\* C9 witness: chromium failed on all criteria, then firefox failed to launch:
\* the retained error is the launch error
C9_Witness ==
  /\ Returned
  /\ result = "False"
  /\ attempts[<<1, 3>>] = 1
  /\ last_err = Err(2, 0, "launch")

\* C10: save_webpage_as_image never propagates an exception: the request never
\* ends by an exception leaving archive(), and a finished request has rendered
\* a result page.
C10_NoExceptionEscapes ==
  /\ pc # "raised"
  /\ pc = "done" => rendered # "none"

\* C12: failure artifacts are attempted only for an attempt that failed; in a
\* run whose first attempt (first engine, networkidle) succeeds, no .fail.png
\* or .fail.html write is ever attempted and the result is True.
C12_NoArtifactsAfterFirstSuccess ==
  /\ \A p \in Pairs : (pngTries[p] > 0 \/ htmlTries[p] > 0) => outcome[p] = "fail"
  /\ Succeeded(<<1, 1>>) =>
       /\ \A p \in Pairs : pngTries[p] = 0 /\ htmlTries[p] = 0
       /\ Returned => result = "True"

\* where the scroll routine is, given the measured height: it runs only for a
\* height above the threshold, and never for a height at or below it
C13_TallnessState ==
  /\ pc \in {"scroll", "pause"} => height > TallThreshold
  /\ pc = "pause" => y > 0
  /\ height <= TallThreshold => (y = 0 /\ pc \notin {"scroll", "pause"})
  /\ (pc = "shot" /\ height > TallThreshold) => (y > 0 \/ stab = "swallowed")

\* a step of the stabilization: the routine is entered exactly when the height
\* just measured is above the threshold, and the step leads on towards the
\* capture without failing the attempt
C13_TallnessStep ==
  /\ pc = "measure" => (pc' = "scroll" <=> height' > TallThreshold)
  /\ pc \in {"measure", "scroll", "pause"} =>
       /\ pc' \in {"scroll", "pause", "shot"}
       /\ outcome' = outcome
       /\ exc' = exc

\* C13: the scroll routine runs if the measured height is above 3000 and does
\* not run if it is below; in both cases the full-page capture follows.
C13_TallnessTrigger == []C13_TallnessState /\ [][C13_TallnessStep]_vars

\* C13 witness: a document of more than 3000 px was scrolled to its bottom
\* and the capture is about to be taken
C13_Witness ==
  /\ pc = "shot"
  /\ height > TallThreshold
  /\ y >= docHeight
  /\ stab = "done"

\* C14 as stated: when the scroll routine stops, the last y passed to
\* window.scrollTo equals the document's scroll height.
C14_FinalYEqualsHeight ==
  pc = "pause" => y = docHeight

\* C14 amended: when the scroll routine stops, the last y passed to
\* window.scrollTo is a positive multiple of 1200 that has reached the
\* document's scroll height and, the document never shrinking, is less than
\* one step past it.
C14_FinalYFirstMultiple ==
  pc = "pause" =>
    /\ y > 0
    /\ y % ScrollStep = 0
    /\ y >= docHeight
    /\ y - ScrollStep < docHeight

\* C14 witness: the routine stopped past the bottom of a document that grew
\* while it was scrolled
C14_Witness ==
  /\ pc = "pause"
  /\ docHeight > height
  /\ y > docHeight

\* C15: no part of the stabilization step (settle delay, height measurement,
\* scroll routine) fails the attempt: after a successful navigation the
\* attempt can only fail in the capture.
C15_StabilizationNeverFails ==
  /\ stab # "failed"
  /\ pc = "inner_except" => exc.step \in {"goto", "screenshot", "close"}
  /\ (pc = "inner_except" /\ nav = "ok" /\ outcome[<<eng, crit>>] = "fail")
        => exc.step = "screenshot"

\* control is inside the criterion loop of the current engine
InCriterionLoop ==
  pc \in {"goto", "settle", "measure", "scroll", "pause", "shot", "close_ok",
          "inner_except", "fail_png", "fail_html"}

\* the orchestrator has left engine e, whose set-up had succeeded, without
\* returning True
LeftEngine(e) ==
  /\ launched[e] > 0
  /\ engineFail[e] \notin SetUpSteps
  /\ result # "True"
  /\ eng > e \/ (eng = e /\ pc \in {"close_end", "outer_except", "return_false",
                                    "returned", "done"})

\* C16: a navigation or capture failure is criterion-fatal only: the next
\* criterion is attempted on the same engine instance, with no relaunch and no
\* close in between, and the engine is left only after its last criterion
\* (domcontentloaded) has failed.
C16_CriterionFatalOnly ==
  \A e \in EngineIdx :
    /\ launchCalls[e] <= 1
    /\ \A c \in 1..(Len(LoadStates) - 1) :
         (outcome[<<e, c>>] = "fail" /\ ~(eng = e /\ crit = c)) =>
           \/ attempts[<<e, c + 1>>] = 1
           \/ (eng = e /\ crit = c + 1 /\ pc = "goto")
    /\ (eng = e /\ InCriterionLoop /\ \A c \in CritIdx : ~Succeeded(<<e, c>>)) =>
         closeCalls[e] = 0
    /\ LeftEngine(e) => outcome[<<e, Len(LoadStates)>>] = "fail"

\* the part of C16 that does not depend on the close() of line 170: failed
\* attempts keep the engine, and an engine is left only after all its criteria
\* were attempted
C16_FailuresKeepEngine ==
  \A e \in EngineIdx :
    /\ launchCalls[e] <= 1
    /\ \A c \in 1..(Len(LoadStates) - 1) :
         (outcome[<<e, c>>] = "fail" /\ ~(eng = e /\ crit = c)) =>
           \/ attempts[<<e, c + 1>>] = 1
           \/ (eng = e /\ crit = c + 1 /\ pc = "goto")
    /\ (eng = e /\ InCriterionLoop /\ \A c \in CritIdx : ~Succeeded(<<e, c>>)) =>
         closeCalls[e] = 0
    /\ LeftEngine(e) => \A c \in CritIdx : attempts[<<e, c>>] = 1

\* C17: return False is reached only if every engine x criterion combination
\* failed: never while some combination succeeded in capturing the primary
\* artifact, nor while a criterion is untried on an engine whose launch,
\* context and page creation succeeded.
C17_FalseOnlyIfAllFailed ==
  (Returned /\ result = "False") =>
    /\ \A p \in Pairs : ~Succeeded(p)
    /\ \A e \in EngineIdx :
         engineFail[e] \notin SetUpSteps => \A c \in CritIdx : outcome[<<e, c>>] # "untried"
    /\ AllCombinationsFailed

\* a browser instance is live once launched, until close() is invoked on it
Live(e) == launched[e] > 0 /\ closeCalls[e] = 0

\* C19: at every point of a run at most one browser instance is live; the
\* fallback engine is never launched while the primary engine's instance is
\* still open.
C19_AtMostOneLive ==
  /\ Cardinality({e \in EngineIdx : Live(e)}) <= 1
  /\ \A e \in EngineIdx : launchCalls[e] > 0 => \A d \in 1..(e - 1) : ~Live(d)

\* sums of a history over a set of keys
RECURSIVE SumOver(_, _)
SumOver(f, S) ==
  IF S = {} THEN 0
  ELSE LET k == CHOOSE k \in S : TRUE IN f[k] + SumOver(f, S \ {k})

\* the counting part of C20: each engine is launched at most once and each
\* combination attempted at most once, at most 2 launches and 6 navigations
C20_Counts ==
  /\ \A e \in EngineIdx : launchCalls[e] <= 1
  /\ \A p \in Pairs : attempts[p] <= 1
  /\ SumOver(launchCalls, EngineIdx) <= 2
  /\ SumOver(attempts, Pairs) <= 6

\* C20: each engine is launched at most once and each engine x criterion
\* combination is attempted at most once (at most 2 launches, 6 navigation
\* attempts); firefox is launched only after chromium has ended without a
\* success.
C20_BoundedAttempts ==
  /\ C20_Counts
  /\ launchCalls[2] > 0 => (eng = 2 /\ \A c \in CritIdx : ~Succeeded(<<1, c>>))

\* C11: two requests served concurrently never receive the same primary output
\* path nor the same .fail.png / .fail.html paths, and no file of the upload
\* directory is written by both.
C11_DistinctPaths ==
  /\ (output_path # NoPath /\ peerPath # NoPath) =>
       /\ output_path # peerPath
       /\ FailPngPath(output_path) # FailPngPath(peerPath)
       /\ FailHtmlPath(output_path) # FailHtmlPath(peerPath)
  /\ {w.path : w \in written} \cap peerWritten = {}

\* C18: every call of save_webpage_as_image eventually returns (or raises):
\* no attempt blocks forever, the scroll routine included, whatever the
\* document does while it is scrolled.
C18_EventuallyReturns == (pc = "pw_start") ~> (pc \in {"returned", "raised"})

====
